---- MODULE Spec2Model ----
(***************************************************************************)
(* Model of src/bean_machine_mnt.py: class GaltonBoard.                    *)
(*                                                                         *)
(* Positions and momenta of the random walk are exact rationals, held as   *)
(* integers in units of 1/Scale (the walk only multiplies by 0.8, 0.7, 0.1 *)
(* and halves, so every value is a multiple of 1/Scale for num_rows up to  *)
(* MaxRows); on every input drawn here the bin index equals the one the    *)
(* double-precision code returns.  The bar height, whose value depends on  *)
(* the rounding of the two double-precision operations f / M * H, is       *)
(* computed on IEEE-754 binary64 significands (53 bits, round to nearest,  *)
(* ties to even).                                                          *)
(* Python list indices are 0-based; sequences here are 1-based, so element *)
(* k of a Python list is element k+1 of the sequence.                      *)
(* The board has a positive width and height (spec.md, section 3).         *)
(***************************************************************************)
EXTENDS Integers, Sequences, FiniteSets

\* ---- bounds of the model ----
MaxRows == 2
MaxWidth == 9
\* one more board, wide enough for a walk to end between the clamp's ends
WideBoard == 20
MaxHeight == 2
MaxBalls == 2
MaxNoise == 3
MaxRuns == 2
\* the inputs of the smoother and of the renderer taken alone
MaxSmoothWidth == 8
MaxCount == 2
MaxRenderWidth == 2
MaxFreq == 22

\* ---- program constants ----
PEG_RADIUS == 4
WINDOW_SIZE == 3

Scale == 2 * 5^MaxRows

VARIABLES num_rows, num_balls, board_width, board_height,
          slot_counts, image, bars,
          pc, slots, i, bin_index, fixed_draws, runs, last_call, raised,
          write_error, printed, writes

vars == <<num_rows, num_balls, board_width, board_height, slot_counts, image,
          bars, pc, slots, i, bin_index, fixed_draws, runs, last_call, raised,
          write_error, printed, writes>>

\* ---- helpers ----
Max(a, b) == IF a >= b THEN a ELSE b
Min(a, b) == IF a <= b THEN a ELSE b
Abs(a) == IF a >= 0 THEN a ELSE -a

Zeros(n) == [k \in 1..n |-> 0]

\* int(x) of a float x held in units of 1/Scale: truncation toward zero
IntOf(p) == IF p >= 0 THEN p \div Scale ELSE -((-p) \div Scale)

\* ---- the random source ----
\* gauss(0, initial_variance): any real; drawn here from the half-integers
\* -MaxNoise/2 .. MaxNoise/2, in units of 1/Scale
Noises == {n * (Scale \div 2) : n \in -MaxNoise..MaxNoise}
\* random(): a value of [0, 1), in thousandths
Uniforms == {0, 475, 999}
\* the draws of a stub source: zero noise, and a uniform draw that is below
\* no bounce probability (direction -1 at every row)
StubNoise == 0
StubUniform == 999

\* ---- calculate_bin_index ----
\* peg_offset = PEG_RADIUS * 0.5, elasticity = 0.7
peg_offset == (PEG_RADIUS * Scale) \div 2
ElasticityTenths == 7

\* bounce probability in thousandths: clamp(0.5 + 0.1 * d, 0.2, 0.8)
BounceProbability(d) == Max(200, Min(800, 500 + (100 * d) \div Scale))

\* the clamp without the peg radius at either end
ClampToBoard(bw, position) == Max(0, Min(bw * Scale, position))

Clamp(bw, position) ==
    Max(PEG_RADIUS * Scale, Min((bw - PEG_RADIUS) * Scale, position))

\* rows row..rows-1 of the loop of calculate_bin_index; us[row+1] is the
\* uniform draw of row `row`
RECURSIVE Walk(_, _, _, _, _, _)
Walk(bw, rows, row, position, momentum, us) ==
    IF row >= rows THEN position
    ELSE
      LET peg_center == position + (row % 2) * peg_offset
          distance_from_center == (position - peg_center) \div PEG_RADIUS
          bounce_probability == BounceProbability(distance_from_center)
          direction == IF us[row + 1] < bounce_probability THEN 1 ELSE -1
          \* ten times bounce_force
          bounce_force10 == (Scale - Abs(distance_from_center)) * ElasticityTenths
          momentum1 == (momentum * 8) \div 10
                       + (direction * bounce_force10 * PEG_RADIUS * 2) \div 10
          position1 == Clamp(bw, position + momentum1)
      IN Walk(bw, rows, row + 1, position1, momentum1, us)

calculate_bin_index(bw, rows, noise, us) ==
    IntOf(Walk(bw, rows, 0, (bw * Scale) \div 2 + noise, 0, us))

\* ---- IEEE-754 binary64 arithmetic of calculate_bar_height ----
\* A positive double is [m |-> significand, e |-> exponent]: the significand
\* is an integer of 53 bits (the top one set), written as four limbs
\* <<m3, m2, m1, m0>> in base 2^14 (m3 has 11 bits), and the value is
\* m * 2^e.  Operands are integers below 2^15; results of int() are below
\* 2^25.
LimbBits == 14
TopBits == 11
Base == 2^LimbBits

\* m + 1, as <<limbs, carry out of the top limb>>
Incr(m) ==
    LET c1 == IF m[4] + 1 = Base THEN 1 ELSE 0
        c2 == IF m[3] + c1 = Base THEN 1 ELSE 0
        c3 == IF m[2] + c2 = Base THEN 1 ELSE 0
        top == m[1] + c3
    IN IF top = 2^TopBits
         THEN <<(<<2^(TopBits - 1), 0, 0, 0>>), 1>>
         ELSE <<(<<top, (m[2] + c2) % Base, (m[3] + c1) % Base,
                   (m[4] + 1) % Base>>), 0>>

\* round-to-nearest, ties-to-even, of the significand m given whether the
\* discarded part is above or at one half of the last place
RoundNearestEven(m, e, above, tie) ==
    IF above \/ (tie /\ m[4] % 2 = 1)
      THEN [m |-> Incr(m)[1], e |-> e + Incr(m)[2]]
      ELSE [m |-> m, e |-> e]

\* the least s >= 0 with a * 2^s >= b, for 1 <= a <= b < 2^15
ShiftUntil(a, b) ==
    CHOOSE s \in 0..15 : a * 2^s >= b /\ (s = 0 \/ a * 2^(s - 1) < b)

\* the double nearest to f / d, for integers 1 <= f <= d < 2^15: long
\* division of f * 2^s (in [d, 2d)) by d, one limb at a time
FloatDiv(f, d) ==
    LET s == ShiftUntil(f, d)
        n3 == f * 2^s * 2^(TopBits - 1)
        r3 == n3 % d
        r2 == (r3 * Base) % d
        r1 == (r2 * Base) % d
        r0 == (r1 * Base) % d
        m == <<n3 \div d, (r3 * Base) \div d, (r2 * Base) \div d,
               (r1 * Base) \div d>>
    IN RoundNearestEven(m, -(s + 3 * LimbBits + TopBits - 1),
                        2 * r0 > d, 2 * r0 = d)

\* the double nearest to x * h, for a positive double x and an integer
\* 1 <= h < 2^15: the exact product, then its top 53 bits rounded
FloatMulInt(x, h) ==
    LET t0 == x.m[4] * h
        t1 == x.m[3] * h + (t0 \div Base)
        t2 == x.m[2] * h + (t1 \div Base)
        t3 == x.m[1] * h + (t2 \div Base)
        \* the number of bits of the product beyond 53
        s == CHOOSE k \in 0..15 : 2^(TopBits - 1 + k) <= t3 /\ t3 < 2^(TopBits + k)
        p == 2^s
        y2 == ((t3 % p) * Base + (t2 % Base)) % p
        y1 == (y2 * Base + (t1 % Base)) % p
        y0 == (y1 * Base + (t0 % Base)) % p
        m == <<t3 \div p,
               ((t3 % p) * Base + (t2 % Base)) \div p,
               (y2 * Base + (t1 % Base)) \div p,
               (y1 * Base + (t0 % Base)) \div p>>
    IN RoundNearestEven(m, x.e + s, 2 * y0 > p, s > 0 /\ 2 * y0 = p)

\* int(x) of a positive double x below 2^25
FloatToInt(x) ==
    LET k == -x.e
    IN IF k >= 3 * LimbBits + TopBits THEN 0
       ELSE IF k >= 3 * LimbBits THEN x.m[1] \div 2^(k - 3 * LimbBits)
       ELSE (x.m[1] * Base + x.m[2]) \div 2^(k - 2 * LimbBits)

\* the zero guard answering the full height
calculate_bar_height_full(frequency, max_frequency, bh) ==
    IF max_frequency = 0 THEN bh
    ELSE IF frequency = 0 \/ bh = 0 THEN 0
    ELSE FloatToInt(FloatMulInt(FloatDiv(frequency, max_frequency), bh))

\* ---- calculate_bar_height ----
\* 0 if max_frequency == 0 else int(frequency / max_frequency * board_height)
calculate_bar_height(frequency, max_frequency, bh) ==
    IF max_frequency = 0 THEN 0
    ELSE IF frequency = 0 \/ bh = 0 THEN 0
    ELSE FloatToInt(FloatMulInt(FloatDiv(frequency, max_frequency), bh))

\* ---- smooth_slot_counts ----
RECURSIVE Sum(_)
Sum(seq) == IF seq = <<>> THEN 0 ELSE Head(seq) + Sum(Tail(seq))

\* the Python slice seq[start:end], for 0 <= start and end <= len(seq)
Slice(seq, start, end) == SubSeq(seq, start + 1, end)

\* the window without the +1 of its upper end
smooth_slot_counts_short(raw, n) ==
    [k \in 1..n |->
        LET idx == k - 1
            start == Max(0, idx - WINDOW_SIZE)
            end == Max(start + 1, Min(Len(raw), idx + WINDOW_SIZE))
        IN Sum(Slice(raw, start, end)) \div (end - start)]

\* the sum divided by window_size instead of by the window's length
smooth_slot_counts_fixed(raw, n) ==
    [k \in 1..n |->
        LET idx == k - 1
            start == Max(0, idx - WINDOW_SIZE)
            end == Min(Len(raw), idx + WINDOW_SIZE + 1)
        IN Sum(Slice(raw, start, end)) \div WINDOW_SIZE]

\* the new self.slot_counts, of length n = len(self.slot_counts)
smooth_slot_counts(raw, n) ==
    [k \in 1..n |->
        LET idx == k - 1
            start == Max(0, idx - WINDOW_SIZE)
            end == Min(Len(raw), idx + WINDOW_SIZE + 1)
        IN Sum(Slice(raw, start, end)) \div (end - start)]

\* ---- the image and draw_histogram ----
BACKGROUND_COLOR == "background"
LEFT_HALF_COLOR == "left"
RIGHT_HALF_COLOR == "right"

Pixels(bw, bh) == (0..(bw - 1)) \X (0..(bh - 1))

\* Image.new("RGB", (board_width, board_height), BACKGROUND_COLOR)
NewImage(bw, bh) == [p \in Pixels(bw, bh) |-> BACKGROUND_COLOR]

RECURSIVE SeqMax(_)
\* max(seq) of a non-empty list
SeqMax(seq) ==
    IF Len(seq) = 1 THEN seq[1] ELSE Max(Head(seq), SeqMax(Tail(seq)))

\* the split with <= in place of <
BarColorInclusive(x0, bw) ==
    IF x0 <= bw \div 2 THEN LEFT_HALF_COLOR ELSE RIGHT_HALF_COLOR

\* the colour draw_bar picks for a bar whose left edge is x0
BarColor(x0, bw) ==
    IF x0 < bw \div 2 THEN LEFT_HALF_COLOR ELSE RIGHT_HALF_COLOR

\* the rectangle draw_bar passes to draw.rectangle, with its fill colour
draw_bar(frequency, idx, max_frequency, bar_width, bw, bh) ==
    LET bar_height == calculate_bar_height(frequency, max_frequency, bh)
        x0 == idx * bar_width
    IN [x0 |-> x0, y0 |-> bh - bar_height, x1 |-> x0 + bar_width, y1 |-> bh,
        color |-> BarColor(x0, bw)]

\* ImageDraw.rectangle([x0, y0, x1, y1], fill): both corners are inside the
\* filled area, and what falls outside the image is clipped
InRect(p, r) ==
    /\ r.x0 <= p[1] /\ p[1] <= r.x1
    /\ r.y0 <= p[2] /\ p[2] <= r.y1

Rectangle(img, r) ==
    [p \in DOMAIN img |-> IF InRect(p, r) THEN r.color ELSE img[p]]

\* the rectangles of draw_histogram, in drawing order
HistogramBars(counts, bw, bh) ==
    LET max_frequency == SeqMax(counts)
        bar_width == Max(1, bw \div Len(counts))
    IN [k \in 1..Len(counts) |->
          draw_bar(counts[k], k - 1, max_frequency, bar_width, bw, bh)]

RECURSIVE DrawAll(_, _, _)
\* the image after rectangles k.. of rs are drawn on img one after the other
DrawAll(img, rs, k) ==
    IF k > Len(rs) THEN img ELSE DrawAll(Rectangle(img, rs[k]), rs, k + 1)

\* ---- simulate ----
\* slots[bin_index] += 1 on a list of n elements: an index below zero counts
\* from the end, an index outside -n .. n-1 raises IndexError
IndexOk(b, n) == -n <= b /\ b < n
ListPos(b, n) == IF b >= 0 THEN b + 1 ELSE n + b + 1
Increment(raw, b) == [raw EXCEPT ![ListPos(b, Len(raw))] = @ + 1]

\* the exceptions a failing Image.save raises
SaveErrors == {"PermissionError", "OSError"}

\* ---- the board after GaltonBoard(num_rows, num_balls, width, height) ----
Constructed(rows, balls, bw, bh) ==
    /\ num_rows = rows
    /\ num_balls = balls
    /\ board_width = bw
    /\ board_height = bh
    /\ slot_counts = Zeros(bw)
    /\ image = NewImage(bw, bh)
    /\ bars = <<>>
    /\ pc = "idle"
    /\ slots = <<>>
    /\ i = 0
    /\ bin_index = {}
    /\ fixed_draws = TRUE
    /\ runs = 0
    /\ last_call = "__init__"
    /\ raised = "none"
    /\ write_error = "none"
    /\ printed = 0
    /\ writes = 0

Init ==
    \E rows \in 0..MaxRows, balls \in 0..MaxBalls,
       bw \in (1..MaxWidth) \cup {WideBoard}, bh \in 1..MaxHeight :
        Constructed(rows, balls, bw, bh)

\* write_error, printed and writes describe the last call: what the write of
\* a save_image raised, the error lines it printed and the writes it tried.
\* fixed_draws tells whether every draw of the run in progress was the stub's.

\* the num_balls setter
SetNumBalls(n) ==
    /\ pc = "idle"
    /\ n # num_balls
    /\ num_balls' = n
    /\ last_call' = "num_balls"
    /\ raised' = "none"
    /\ write_error' = "none"
    /\ printed' = 0
    /\ writes' = 0
    /\ UNCHANGED <<num_rows, board_width, board_height, slot_counts, image,
                   bars, pc, slots, i, bin_index, fixed_draws, runs>>

\* simulate(), up to the loop
SimulateBegin ==
    /\ pc = "idle"
    /\ runs < MaxRuns
    /\ runs' = runs + 1
    /\ pc' = "simulate"
    /\ slots' = Zeros(board_width)
    /\ i' = 0
    /\ bin_index' = {}
    /\ fixed_draws' = TRUE
    /\ last_call' = "simulate"
    /\ raised' = "none"
    /\ write_error' = "none"
    /\ printed' = 0
    /\ writes' = 0
    /\ UNCHANGED <<num_rows, num_balls, board_width, board_height,
                   slot_counts, image, bars>>

\* one iteration of the loop of simulate(): a ball is dropped and counted.
\* An IndexError ends the call; bin_index keeps the index that raised it.
DropBall ==
    /\ pc = "simulate"
    /\ i < num_balls
    /\ \E noise \in Noises, us \in [1..num_rows -> Uniforms] :
         LET b == calculate_bin_index(board_width, num_rows, noise, us)
         IN /\ bin_index' = {b}
            /\ fixed_draws' =
                  (/\ fixed_draws
                   /\ noise = StubNoise
                   /\ \A r \in 1..num_rows : us[r] = StubUniform)
            /\ IF IndexOk(b, Len(slots))
                 THEN /\ slots' = Increment(slots, b)
                      /\ i' = i + 1
                      /\ UNCHANGED <<pc, raised>>
                 ELSE /\ raised' = "IndexError"
                      /\ pc' = "idle"
                      /\ slots' = <<>>
                      /\ UNCHANGED i
    /\ UNCHANGED <<num_rows, num_balls, board_width, board_height,
                   slot_counts, image, bars, runs, last_call, write_error,
                   printed, writes>>

\* the end of simulate(): the raw counts are smoothed into slot_counts, and
\* the locals of the call are gone (i keeps the number of balls counted)
SimulateEnd ==
    /\ pc = "simulate"
    /\ i = num_balls
    /\ slot_counts' = smooth_slot_counts(slots, Len(slot_counts))
    /\ slots' = <<>>
    /\ bin_index' = {}
    /\ fixed_draws' = TRUE
    /\ pc' = "idle"
    /\ UNCHANGED <<num_rows, num_balls, board_width, board_height, image,
                   bars, i, runs, last_call, raised, write_error, printed,
                   writes>>

\* what generate_image() does to the image and to the rectangles drawn
Render ==
    LET rs == HistogramBars(slot_counts, board_width, board_height)
    IN /\ bars' = rs
       /\ image' = DrawAll(image, rs, 1)

\* generate_image()
GenerateImage ==
    /\ pc = "idle"
    /\ Render
    /\ last_call' = "generate_image"
    /\ raised' = "none"
    /\ write_error' = "none"
    /\ printed' = 0
    /\ writes' = 0
    /\ UNCHANGED <<num_rows, num_balls, board_width, board_height,
                   slot_counts, pc, slots, i, bin_index, fixed_draws, runs>>

\* save_image(filename), up to the write: self.generate_image()
SaveImageBegin ==
    /\ pc = "idle"
    /\ Render
    /\ pc' = "save"
    /\ last_call' = "save_image"
    /\ writes' = 0
    /\ write_error' = "none"
    /\ printed' = 0
    /\ raised' = "none"
    /\ UNCHANGED <<num_rows, num_balls, board_width, board_height,
                   slot_counts, slots, i, bin_index, fixed_draws, runs>>

\* save_image(filename): .save(filename) writes the file
SaveImageOk ==
    /\ pc = "save"
    /\ writes' = writes + 1
    /\ pc' = "idle"
    /\ UNCHANGED <<num_rows, num_balls, board_width, board_height,
                   slot_counts, image, bars, slots, i, bin_index,
                   fixed_draws, runs, last_call, raised, write_error,
                   printed>>

\* the except clause without its raise
SaveFailureSwallowed(e) ==
    /\ printed' = printed + 1
    /\ raised' = "none"
    /\ pc' = "idle"

\* the except clause of save_image, for the exception e of the write
SaveFailure(e) ==
    /\ printed' = printed + 1
    /\ raised' = e
    /\ pc' = "idle"

\* save_image(filename): .save(filename) raises e
SaveImageFail(e) ==
    /\ pc = "save"
    /\ writes' = writes + 1
    /\ write_error' = e
    /\ SaveFailure(e)
    /\ UNCHANGED <<num_rows, num_balls, board_width, board_height,
                   slot_counts, image, bars, slots, i, bin_index,
                   fixed_draws, runs, last_call>>

Next ==
    \/ \E n \in 0..MaxBalls : SetNumBalls(n)
    \/ SimulateBegin
    \/ DropBall
    \/ SimulateEnd
    \/ GenerateImage
    \/ SaveImageBegin
    \/ SaveImageOk
    \/ \E e \in SaveErrors : SaveImageFail(e)

Spec == Init /\ [][Next]_vars

\* ---- smooth_slot_counts taken alone, on every array of raw counts ----
InitSmooth ==
    \E bw \in 1..MaxSmoothWidth :
      \E raw \in [1..bw -> 0..MaxCount] :
        /\ num_rows = 0
        /\ num_balls = Sum(raw)
        /\ board_width = bw
        /\ board_height = 1
        /\ slot_counts = Zeros(bw)
        /\ image = NewImage(bw, 1)
        /\ bars = <<>>
        /\ pc = "simulate"
        /\ slots = raw
        /\ i = Sum(raw)
        /\ bin_index = {}
        /\ fixed_draws = TRUE
        /\ runs = 1
        /\ last_call = "simulate"
        /\ raised = "none"
        /\ write_error = "none"
        /\ printed = 0
        /\ writes = 0

NextSmooth == SimulateEnd

SpecSmooth == InitSmooth /\ [][NextSmooth]_vars

\* ---- draw_histogram taken alone, on every array of slot counts ----
RenderHeights == {1, 2, 3, 22, 100}
ExampleCounts == <<10, 0, 5>>

InitRender ==
    \E bh \in RenderHeights :
      \E counts \in UNION {[1..bw -> 0..MaxFreq] : bw \in 1..MaxRenderWidth}
                    \cup {ExampleCounts} :
        /\ num_rows = 0
        /\ num_balls = 0
        /\ board_width = Len(counts)
        /\ board_height = bh
        /\ slot_counts = counts
        /\ image = NewImage(Len(counts), bh)
        /\ bars = <<>>
        /\ pc = "idle"
        /\ slots = <<>>
        /\ i = 0
        /\ bin_index = {}
        /\ fixed_draws = TRUE
        /\ runs = 1
        /\ last_call = "simulate"
        /\ raised = "none"
        /\ write_error = "none"
        /\ printed = 0
        /\ writes = 0

NextRender == GenerateImage

SpecRender == InitRender /\ [][NextRender]_vars

\* ---- properties ----
Rendered == pc = "idle" /\ last_call = "generate_image"
BarHeight(r) == board_height - r.y0

\* the indices of the window of index idx in a list of n elements
Window(idx, n) ==
    {j \in 0..(n - 1) : idx - WINDOW_SIZE <= j /\ j <= idx + WINDOW_SIZE}

RECURSIVE SumOver(_, _)
\* the sum of raw[j] (0-based) over the indices j of S
SumOver(raw, S) ==
    IF S = {} THEN 0
    ELSE LET j == CHOOSE m \in S : TRUE
         IN raw[j + 1] + SumOver(raw, S \ {j})

\* simulate() returns: the step that smooths the raw counts
SimulateReturns == pc = "simulate" /\ pc' = "idle" /\ raised' = "none"

\* C1 as stated: whatever the configuration and the draws, the bin index
\* calculate_bin_index returns lies in [PEG_RADIUS, board_width - PEG_RADIUS].
C1_AnyConfiguration ==
    \A b \in bin_index : PEG_RADIUS <= b /\ b <= board_width - PEG_RADIUS

\* C1 amended: when there is at least one row and the board is at least
\* 2 * PEG_RADIUS wide, the bin index calculate_bin_index returns lies in
\* [PEG_RADIUS, board_width - PEG_RADIUS], whatever the draws.
C1_ClampInvariant ==
    (num_rows >= 1 /\ board_width >= 2 * PEG_RADIUS) =>
        \A b \in bin_index : PEG_RADIUS <= b /\ b <= board_width - PEG_RADIUS

C1_Witness ==
    /\ num_rows >= 1
    /\ board_width > 2 * PEG_RADIUS
    /\ \E b \in bin_index : PEG_RADIUS < b /\ b < board_width - PEG_RADIUS
    /\ pc = "simulate"
    /\ i >= 1

\* C2: every bin index used to increment the raw counts satisfies
\* 0 <= index < board_width, and simulate() is never aborted by IndexError.
C2_IndexInRange ==
    /\ \A b \in bin_index : 0 <= b /\ b < board_width
    /\ raised # "IndexError"

\* C3: when simulate() returns, slot_counts[idx] is the floor of the sum of
\* the raw counts over the indices max(0, idx-3) .. min(len-1, idx+3) divided
\* by the number of those indices, for every index idx.
C3_WindowAverage ==
    [][SimulateReturns =>
         \A idx \in 0..(board_width - 1) :
            LET W == Window(idx, Len(slots))
            IN slot_counts'[idx + 1] = SumOver(slots, W) \div Cardinality(W)]_vars

C3_Witness ==
    /\ pc = "idle"
    /\ board_width >= 2 * WINDOW_SIZE + 2
    /\ slot_counts[1] > slot_counts[WINDOW_SIZE + 1]
    /\ slot_counts[WINDOW_SIZE + 1] > 0

\* C4: smoothing keeps len(slot_counts) = board_width, and every output is a
\* non-negative integer that is at most the maximum of the raw counts over
\* its window.
C4_BoundedByWindowMax ==
    [][SimulateReturns =>
         /\ Len(slot_counts') = board_width
         /\ \A idx \in 0..(board_width - 1) :
              /\ slot_counts'[idx + 1] >= 0
              /\ \E j \in Window(idx, Len(slots)) :
                    slot_counts'[idx + 1] <= slots[j + 1]]_vars

C4_Witness ==
    /\ pc = "idle"
    /\ Len(slot_counts) = board_width
    /\ board_width >= 2 * WINDOW_SIZE + 2
    /\ \E k \in 1..board_width : slot_counts[k] = MaxCount
    /\ \E k \in 1..board_width : slot_counts[k] = 0

\* the last simulate() dropped no ball and returned
ZeroBallRun == runs >= 1 /\ pc # "simulate" /\ i = 0 /\ bin_index = {}

\* C5: after a simulate() of zero balls no error is raised and every slot
\* count is 0, and a draw_histogram that follows gives every column the bar
\* height 0.
C5_ZeroBalls ==
    ZeroBallRun =>
        /\ raised # "IndexError"
        /\ \A k \in 1..Len(slot_counts) : slot_counts[k] = 0
        /\ last_call \in {"generate_image", "save_image"} =>
              /\ Len(bars) = board_width
              /\ \A k \in 1..Len(bars) : BarHeight(bars[k]) = 0

C5_Witness ==
    /\ ZeroBallRun
    /\ num_balls = 0
    /\ Rendered
    /\ Len(bars) = board_width
    /\ board_width >= 2

\* C6: a simulate() run whose every draw is the stub's (zero noise,
\* direction -1 at every row) puts all its balls in one bin, the bin of the
\* bin index every call returns: the run is not aborted, the balls counted
\* so far are all in that bin, and at the end of the loop the bin holds
\* num_balls and every other raw bin holds 0.
C6_SingleBin ==
    fixed_draws =>
        /\ raised # "IndexError"
        /\ pc = "simulate" =>
              \A b \in bin_index :
                  slots = [k \in 1..Len(slots) |->
                              IF k = ListPos(b, Len(slots)) THEN i ELSE 0]

\* C7: the bar height of a column with frequency f is 0 when the maximum M
\* is 0 and floor(f * board_height / M) otherwise; so it lies in
\* [0, board_height], a column holding the maximum gets board_height, and
\* slot_counts = [10, 0, 5] with board_height = 100 gives [100, 0, 50].
C7_ExactProportion ==
    Rendered =>
        LET M == SeqMax(slot_counts)
        IN /\ Len(bars) = Len(slot_counts)
           /\ \A k \in 1..Len(bars) :
                /\ BarHeight(bars[k]) =
                      IF M = 0 THEN 0 ELSE (slot_counts[k] * board_height) \div M
                /\ 0 <= BarHeight(bars[k]) /\ BarHeight(bars[k]) <= board_height
                /\ (M > 0 /\ slot_counts[k] = M) => BarHeight(bars[k]) = board_height
           /\ (slot_counts = ExampleCounts /\ board_height = 100) =>
                 [k \in 1..3 |-> BarHeight(bars[k])] = <<100, 0, 50>>

\* C8 as stated: a bar is filled with the LEFT colour exactly when its left
\* edge x0 is below the exact half width board_width / 2.
C8_ExactHalf ==
    \A k \in 1..Len(bars) :
        (bars[k].color = LEFT_HALF_COLOR) <=> (2 * bars[k].x0 < board_width)

\* C8 amended: the bar of column index idx has its left edge at
\* x0 = idx * bar_width and is filled with the LEFT colour exactly when
\* x0 < floor(board_width / 2), and with the RIGHT colour otherwise.
C8_TruncatedHalf ==
    \A k \in 1..Len(bars) :
        /\ bars[k].x0 = (k - 1) * Max(1, board_width \div Len(slot_counts))
        /\ bars[k].color \in {LEFT_HALF_COLOR, RIGHT_HALF_COLOR}
        /\ (bars[k].color = LEFT_HALF_COLOR) <=>
              (bars[k].x0 < board_width \div 2)

C8_Witness ==
    /\ Rendered
    /\ board_width % 2 = 1
    /\ board_width >= 3
    /\ bars[board_width \div 2].color = LEFT_HALF_COLOR
    /\ bars[board_width \div 2 + 1].color = RIGHT_HALF_COLOR

\* C9: when the write of save_image fails, one error line is printed, the
\* write was attempted once, and the exception of the write is the one
\* save_image raises to its caller.
C9_SaveFailurePropagates ==
    (last_call = "save_image" /\ pc = "idle" /\ write_error # "none") =>
        /\ printed = 1
        /\ writes = 1
        /\ raised = write_error

C9_Witness ==
    /\ last_call = "save_image"
    /\ pc = "idle"
    /\ write_error = "OSError"
    /\ raised = "OSError"
    /\ printed = 1

\* C10: in the image generate_image() returns, a pixel has a bar colour only
\* if it lies inside the rectangle of some column of the current slot counts;
\* every other pixel has the background colour.
C10_OnlyCurrentBars ==
    Rendered =>
        LET rs == HistogramBars(slot_counts, board_width, board_height)
        IN \A p \in DOMAIN image :
              image[p] # BACKGROUND_COLOR =>
                  \E k \in 1..Len(rs) : InRect(p, rs[k])

====
